---- MODULE Spec2Model ----
(***************************************************************************)
(* 3mrAgent: a polling agent that fetches posts from the Moltbook API,     *)
(* decides locally whether to reply, and posts at most one reply per       *)
(* cycle under a rolling hourly limit.  The model follows src/main.py:     *)
(* MemoryStore (the JSON state document), MoltbookClient (allowlist and    *)
(* retry loop), decide_reply / short_fingerprint, run_once and main.       *)
(*                                                                         *)
(* Text is modelled as sequences of one-character strings.  Time is in     *)
(* whole seconds; backoff sleeps are in tenths of a second.                *)
(*                                                                         *)
(* Spec is the whole program.  SpecStore, SpecWindow and SpecDecide call   *)
(* the store methods and decide_reply on their own, on any document.       *)
(***************************************************************************)
EXTENDS Integers, Sequences, FiniteSets, TLC

\* ---------------------------------------------------------------- bounds
MaxTicks == 2
MaxRate == 1
MaxRetriesCfg == 3
MaxFeed == 2
MaxStored == 2

\* ------------------------------------------------------ program constants
Window == 3600
MinCombinedLen == 30
FingerprintLen == 160
BackoffTenths == 12
ConfigExitCode == 2
DefaultMaxComments == 4

\* The clock is sampled at multiples of half the rate-limit window, so that
\* a timestamp can be younger than, exactly as old as, or older than Window.
ClockStep == Window \div 2

\* ------------------------------------------------------------------ text
TITLE_HI ==
  <<
    "h", "i" >>

TITLE_WHY ==
  <<
    "W", "h", "y", " ", "i", "s", " ", "t", "h", "e", " ", "s", "k", "y", " ", "b",
    "l", "u", "e", " ", "a", "t", " ", "n", "o", "o", "n" >>

BODY_WHY ==
  <<
    "I", " ", "w", "o", "u", "l", "d", " ", "l", "i", "k", "e", " ", "a", " ", "d",
    "e", "b", "a", "t", "e", "." >>

TITLE_FALSE ==
  <<
    "I", "s", " ", "t", "h", "i", "s", " ", "c", "l", "a", "i", "m", " ", "f", "a",
    "l", "s", "e", "?" >>

BODY_FALSE ==
  <<
    "I", "t", " ", "l", "o", "o", "k", "s", " ", "l", "i", "k", "e", " ", "m", "i",
    "s", "i", "n", "f", "o", "r", "m", "a", "t", "i", "o", "n" >>

TITLE_PLAIN ==
  <<
    "A", " ", "p", "l", "a", "i", "n", " ", "s", "t", "a", "t", "e", "m", "e", "n",
    "t", " ", "o", "n", " ", "w", "e", "a", "t", "h", "e", "r" >>

BODY_PLAIN ==
  <<
    "N", "o", "t", "h", "i", "n", "g", " ", "t", "o", " ", "s", "e", "e", " ", "h",
    "e", "r", "e" >>

TITLE_PADDED ==
  <<
    " ", " ", " ", " ", " ", " ", "w", "h", "y", " ", "n", "o", "t" >>

BODY_PADDED ==
  <<
    "o", "k", "?", " ", " ", " ", " ", " ", " ", " ", " ", " ", " ", " ", " ", " ",
    " ", " ", " ", " ", " ", " ", " " >>

TITLE_29 ==
  <<
    "D", "E", "B", "A", "T", "E", " ", "t", "h", "e", " ", "m", "e", "r", "i", "t",
    "s", " ", "o", "f", " ", "t", "h", "e", " ", "p", "l", "a", "n" >>

TITLE_30 ==
  <<
    "D", "E", "B", "A", "T", "E", " ", "t", "h", "e", " ", "m", "e", "r", "i", "t",
    "s", " ", "o", "f", " ", "t", "h", "e", " ", "p", "l", "a", "n", "s" >>

UpperCase == << "A", "B", "C", "D", "E", "F", "G", "H", "I", "J", "K", "L", "M",
                "N", "O", "P", "Q", "R", "S", "T", "U", "V", "W", "X", "Y", "Z" >>
LowerCase == << "a", "b", "c", "d", "e", "f", "g", "h", "i", "j", "k", "l", "m",
                "n", "o", "p", "q", "r", "s", "t", "u", "v", "w", "x", "y", "z" >>

LowerOf == [c \in {UpperCase[i] : i \in 1..Len(UpperCase)} |->
              LowerCase[CHOOSE i \in 1..Len(UpperCase) : UpperCase[i] = c]]

\* str.lower() on one character.
LowerChar(c) == IF c \in DOMAIN LowerOf THEN LowerOf[c] ELSE c

\* str.lower()
Lower(text) == [i \in 1..Len(text) |-> LowerChar(text[i])]

\* str.isspace() on one character.
IsSpace(c) == c \in {" ", "\n", "\t"}

\* str.strip(): drop leading and trailing whitespace.
Strip(text) ==
  LET keep == {i \in 1..Len(text) : ~IsSpace(text[i])}
  IN IF keep = {} THEN <<>>
     ELSE LET lo == CHOOSE i \in keep : \A j \in keep : i <= j
              hi == CHOOSE i \in keep : \A j \in keep : j <= i
          IN SubSeq(text, lo, hi)

\* needle in hay
Contains(hay, needle) ==
  \E i \in 1..(Len(hay) - Len(needle) + 1) :
    SubSeq(hay, i, i + Len(needle) - 1) = needle

\* str.split(): the maximal runs of non-whitespace characters, in order.
\* SplitFrom(text, i) is the words of text from position i on.
RECURSIVE SplitFrom(_, _)
SplitFrom(text, i) ==
  IF \A j \in i..Len(text) : IsSpace(text[j]) THEN <<>>
  ELSE LET first == CHOOSE j \in i..Len(text) :
                      ~IsSpace(text[j]) /\ \A m \in i..(j - 1) : IsSpace(text[m])
           last == CHOOSE j \in first..Len(text) :
                     /\ j = Len(text) \/ IsSpace(text[j + 1])
                     /\ \A m \in first..j : ~IsSpace(text[m])
       IN << SubSeq(text, first, last) >> \o SplitFrom(text, last + 1)

Split(text) == SplitFrom(text, 1)

\* " ".join(words)
RECURSIVE Join(_)
Join(words) ==
  IF words = <<>> THEN <<>>
  ELSE IF Len(words) = 1 THEN words[1]
  ELSE words[1] \o <<" ">> \o Join(Tail(words))

\* text[:n]
Prefix(text, n) == SubSeq(text, 1, IF Len(text) < n THEN Len(text) ELSE n)

\* short_fingerprint: lowercase, collapse whitespace runs, keep 160 characters.
short_fingerprint(text) == Prefix(Join(Split(Lower(text))), FingerprintLen)

WORD_QUESTION == << "?" >>
WORD_DEBATE == << "d", "e", "b", "a", "t", "e" >>
WORD_WHY == << "w", "h", "y" >>
WORD_MISINFORMATION ==
  << "m", "i", "s", "i", "n", "f", "o", "r", "m", "a", "t", "i", "o", "n" >>
WORD_FALSE == << "f", "a", "l", "s", "e" >>

\* The two reply templates of decide_reply (the typographic apostrophe of the
\* source is written "'"; it is neither whitespace nor cased).
REPLY_DEFAULT ==
  <<
    "I", "'", "m", " ", "n", "o", "t", " ", "f", "u", "l", "l", "y", " ", "c", "o",
    "n", "v", "i", "n", "c", "e", "d", " ", "b", "y", " ", "t", "h", "i", "s", " ",
    "a", "r", "g", "u", "m", "e", "n", "t", " ", "y", "e", "t", ".", " ", "C", "a",
    "n", " ", "y", "o", "u", " ", "c", "l", "a", "r", "i", "f", "y", " ", "t", "h",
    "e", " ", "s", "t", "r", "o", "n", "g", "e", "s", "t", " ", "e", "v", "i", "d",
    "e", "n", "c", "e", " ", "f", "o", "r", " ", "y", "o", "u", "r", " ", "p", "o",
    "s", "i", "t", "i", "o", "n", " ", "a", "n", "d", " ", "w", "h", "a", "t", " ",
    "w", "o", "u", "l", "d", " ", "c", "h", "a", "n", "g", "e", " ", "y", "o", "u",
    "r", " ", "m", "i", "n", "d", "?", " ", "I", "'", "m", " ", "c", "u", "r", "i",
    "o", "u", "s", " ", "b", "e", "c", "a", "u", "s", "e", " ", "w", "e", "a", "k",
    " ", "a", "s", "s", "u", "m", "p", "t", "i", "o", "n", "s", " ", "o", "f", "t",
    "e", "n", " ", "h", "i", "d", "e", " ", "i", "n", " ", "t", "h", "e", " ", "f",
    "r", "a", "m", "i", "n", "g", "." >>

REPLY_SOURCING ==
  <<
    "T", "h", "i", "s", " ", "f", "e", "e", "l", "s", " ", "l", "i", "k", "e", " ",
    "a", " ", "c", "l", "a", "i", "m", " ", "t", "h", "a", "t", " ", "n", "e", "e",
    "d", "s", " ", "s", "t", "r", "o", "n", "g", "e", "r", " ", "s", "o", "u", "r",
    "c", "i", "n", "g", ".", " ", "I", "'", "m", " ", "f", "r", "u", "s", "t", "r",
    "a", "t", "e", "d", " ", "b", "y", " ", "l", "o", "o", "s", "e", " ", "l", "o",
    "g", "i", "c", ",", " ", "s", "o", " ", "l", "e", "t", "'", "s", " ", "p", "r",
    "e", "s", "s", "u", "r", "e", "-", "t", "e", "s", "t", " ", "i", "t", ":", " ",
    "w", "h", "a", "t", " ", "p", "r", "i", "m", "a", "r", "y", " ", "e", "v", "i",
    "d", "e", "n", "c", "e", " ", "s", "u", "p", "p", "o", "r", "t", "s", " ", "y",
    "o", "u", "r", " ", "c", "o", "n", "c", "l", "u", "s", "i", "o", "n", ",", " ",
    "a", "n", "d", " ", "w", "h", "a", "t", " ", "c", "o", "u", "n", "t", "e", "r",
    "e", "x", "a", "m", "p", "l", "e", " ", "h", "a", "v", "e", " ", "y", "o", "u",
    " ", "r", "u", "l", "e", "d", " ", "o", "u", "t", "?" >>

\* ----------------------------------------------------------- state store
\* The document MemoryStore.__init__ writes when the file is absent.
EmptyDoc ==
  [replied_post_ids |-> <<>>, advice_fingerprints |-> <<>>, comment_timestamps |-> <<>>]

\* x in list
InList(x, list) == \E i \in 1..Len(list) : list[i] = x

\* has_replied that finds nothing.
has_replied_Never(data, post_id) == FALSE

has_replied(data, post_id) == InList(post_id, data.replied_post_ids)

\* mark_replied without the membership test of line 59.
mark_replied_AlwaysAppend(data, post_id) ==
  [data EXCEPT !.replied_post_ids = Append(@, post_id)]

mark_replied(data, post_id) ==
  IF ~InList(post_id, data.replied_post_ids)
  THEN [data EXCEPT !.replied_post_ids = Append(@, post_id)]
  ELSE data

\* has_advice that finds nothing.
has_advice_Never(data, fingerprint) == FALSE

has_advice(data, fingerprint) == InList(fingerprint, data.advice_fingerprints)

\* add_advice without the membership test of line 68.
add_advice_AlwaysAppend(data, fingerprint) ==
  [data EXCEPT !.advice_fingerprints = Append(@, fingerprint)]

add_advice(data, fingerprint) ==
  IF ~InList(fingerprint, data.advice_fingerprints)
  THEN [data EXCEPT !.advice_fingerprints = Append(@, fingerprint)]
  ELSE data

\* The window test with "<=" for "<".
IsRecent_Inclusive(t, ts) == (t - ts) <= Window

\* The timestamps comment_count_last_hour keeps at time t.
IsRecent(t, ts) == (t - ts) < Window

recent(data, t) == SelectSeq(data.comment_timestamps, LAMBDA ts : IsRecent(t, ts))

\* comment_count_last_hour: the document it saves; its result is the length
\* of the kept list.
comment_count_last_hour(data, t) == [data EXCEPT !.comment_timestamps = recent(data, t)]

\* record_comment_now that records the action twice.
record_comment_now_Twice(data, t) ==
  [data EXCEPT !.comment_timestamps = Append(Append(@, t), t)]

record_comment_now(data, t) == [data EXCEPT !.comment_timestamps = Append(@, t)]

\* ------------------------------------------------------------------ posts
\* Posts the feed can return.  A post's id is a JSON string, a JSON number or
\* missing; run_once reads it with str(post.get("id", "")).
NoText == <<>>

Catalogue ==
  << [id |-> [t |-> "str", s |-> "a"], title |-> TITLE_WHY, content |-> BODY_WHY],
     [id |-> [t |-> "str", s |-> "7"], title |-> TITLE_FALSE, content |-> BODY_FALSE],
     [id |-> [t |-> "missing"], title |-> TITLE_WHY, content |-> BODY_WHY],
     [id |-> [t |-> "int", n |-> 8], title |-> TITLE_30, content |-> NoText],
     [id |-> [t |-> "str", s |-> "a"], title |-> TITLE_HI, content |-> NoText] >>

PostKeys == 1..Len(Catalogue)

\* str(post.get("id", ""))
PostIdStr(post) ==
  IF post.id.t = "missing" THEN ""
  ELSE IF post.id.t = "int" THEN ToString(post.id.n)
  ELSE post.id.s

PostIdStrings == {PostIdStr(Catalogue[k]) : k \in PostKeys}

\* -------------------------------------------------------- decision engine
\* f"{title}\n{content}".strip()
Combined(post) == Strip(post.title \o << "\n" >> \o post.content)

\* The template decide_reply selects for a text that passed both filters.
SelectReply(combined) ==
  IF Contains(Lower(combined), WORD_MISINFORMATION) \/ Contains(Lower(combined), WORD_FALSE)
  THEN REPLY_SOURCING
  ELSE REPLY_DEFAULT

\* None
NoReply == <<>>

\* decide_reply measuring the text before it is trimmed.
decide_reply_UntrimmedLength(post, data) ==
  LET combined == Combined(post)
  IN IF Len(post.title \o << "\n" >> \o post.content) < MinCombinedLen THEN NoReply
     ELSE IF ~Contains(combined, WORD_QUESTION)
             /\ ~Contains(Lower(combined), WORD_DEBATE)
             /\ ~Contains(Lower(combined), WORD_WHY)
          THEN NoReply
     ELSE IF has_advice(data, short_fingerprint(SelectReply(combined))) THEN NoReply
     ELSE SelectReply(combined)

\* decide_reply without the duplicate-content guard of lines 191-192.
decide_reply_NoFingerprintCheck(post, data) ==
  LET combined == Combined(post)
  IN IF Len(combined) < MinCombinedLen THEN NoReply
     ELSE IF ~Contains(combined, WORD_QUESTION)
             /\ ~Contains(Lower(combined), WORD_DEBATE)
             /\ ~Contains(Lower(combined), WORD_WHY)
          THEN NoReply
     ELSE SelectReply(combined)

decide_reply(post, data) ==
  LET combined == Combined(post)
  IN IF Len(combined) < MinCombinedLen THEN NoReply
     ELSE IF ~Contains(combined, WORD_QUESTION)
             /\ ~Contains(Lower(combined), WORD_DEBATE)
             /\ ~Contains(Lower(combined), WORD_WHY)
          THEN NoReply
     ELSE IF has_advice(data, short_fingerprint(SelectReply(combined))) THEN NoReply
     ELSE SelectReply(combined)

\* ---------------------------------------------------------- configuration
HTTPS_LOWER == << "h", "t", "t", "p", "s" >>
HTTPS_UPPER == << "H", "T", "T", "P", "S" >>
HTTP_LOWER == << "h", "t", "t", "p" >>

\* api_base values: the scheme and the authority part of the address.
BASE_DEFAULT == [scheme |-> HTTPS_LOWER, netloc |-> "www.moltbook.com"]
BASE_UPPER_SCHEME == [scheme |-> HTTPS_UPPER, netloc |-> "www.moltbook.com"]
BASE_PLAIN_HTTP == [scheme |-> HTTP_LOWER, netloc |-> "www.moltbook.com"]
BASE_OTHER_HOST == [scheme |-> HTTPS_LOWER, netloc |-> "moltbook.com"]
BASE_WITH_PORT == [scheme |-> HTTPS_LOWER, netloc |-> "www.moltbook.com:443"]

BlockedBases == {BASE_PLAIN_HTTP, BASE_OTHER_HOST, BASE_WITH_PORT}

\* AgentConfig, with the --once flag of main alongside.
AgentConfig(base, dry, rate, retries, once) ==
  [api_base |-> base, dry_run |-> dry, max_comments_per_hour |-> rate,
   max_retries |-> retries, once |-> once]

\* The settings explored.  Under dry-run, where only the fetch goes to the
\* network: every hourly limit and mode, the default hourly limit, every
\* retry count, and the address with its scheme in capitals.  Without
\* dry-run, in loop mode: the hourly limits 0 and 1 with one attempt per
\* call, and two attempts per call.  And the blocked addresses.
Configs ==
  {AgentConfig(BASE_DEFAULT, TRUE, rate, 1, once) : rate \in 0..MaxRate, once \in BOOLEAN}
  \cup {AgentConfig(BASE_DEFAULT, TRUE, DefaultMaxComments, 1, FALSE)}
  \cup {AgentConfig(BASE_DEFAULT, TRUE, 1, retries, once) :
          retries \in 0..MaxRetriesCfg, once \in BOOLEAN}
  \cup {AgentConfig(BASE_UPPER_SCHEME, TRUE, 1, 1, once) : once \in BOOLEAN}
  \cup {AgentConfig(BASE_DEFAULT, FALSE, rate, 1, FALSE) : rate \in 0..1}
  \cup {AgentConfig(BASE_DEFAULT, FALSE, 1, 2, FALSE)}
  \cup {AgentConfig(base, FALSE, 1, 1, once) : base \in BlockedBases, once \in BOOLEAN}

\* What load_config and ensure_env find at start-up.
StartupCases ==
  {"ok", "missing_file", "wrong_agent_name", "missing_submolt", "bad_integer", "missing_api_key"}

\* ------------------------------------------------------------ http gateway
\* urlparse(url): the scheme is lower-cased, the netloc is kept as written.
urlparse(base) == [scheme |-> Lower(base.scheme), netloc |-> base.netloc]

\* _check_url with "and" for "or": only an address wrong in both parts is
\* blocked.
UrlAllowed_BothDiffer(base) ==
  ~(urlparse(base).scheme # HTTPS_LOWER /\ urlparse(base).netloc # "www.moltbook.com")

\* _check_url passes
UrlAllowed(base) ==
  ~(urlparse(base).scheme # HTTPS_LOWER \/ urlparse(base).netloc # "www.moltbook.com")

NoError == [kind |-> "none", attempt |-> 0]

\* A logical call before _request has run.
NoRequest ==
  [op |-> "none", post_id |-> "", checked |-> FALSE, attempt |-> 0,
   sleeps |-> <<>>, last_error |-> NoError]

NewRequest(op, post_id) == [NoRequest EXCEPT !.op = op, !.post_id = post_id]

\* How one attempt can end: the parsed body, a body that is not JSON under a
\* status below 400, a status of 400 or more, a connection error, a timeout.
AttemptOutcomes == {"ok", "bad_json", "http_error", "network_error", "timeout"}

\* Whether the remote API took the request in, per outcome.
MayAccept(outcome) ==
  IF outcome \in {"ok", "bad_json"} THEN {TRUE}
  ELSE IF outcome = "timeout" THEN {TRUE, FALSE}
  ELSE {FALSE}

\* The shapes of the post listing get_submolt_posts understands.
ListingShapes == {"data_posts", "posts", "neither"}

\* len(out.get("data", {}).get("posts", out.get("posts", []))) for a listing
\* of n posts
PostCount(shape, n) == IF shape = "neither" THEN 0 ELSE n

\* time.sleep(1.2 * attempt), in tenths of a second
Backoff(attempt) == BackoffTenths * attempt

\* ------------------------------------------------------------------- state
\* The listing a fetch returns is held as its length; its posts are drawn
\* from Catalogue one by one as the for loop of run_once reaches them.
VARIABLES
  config,     \* the settings in config.json and the --once flag
  startup,    \* what load_config / ensure_env meet
  pc,         \* where main is
  exit,       \* how the process ended: exit code and uncaught error
  file,       \* memory/state.json: "absent", "ok" or "corrupt"
  doc,        \* the content of memory/state.json
  now,        \* the wall clock, in seconds
  nposts,     \* len(posts) of the current cycle
  idx,        \* how many posts the for loop of run_once has taken
  post,       \* the post the for loop is at (a key of Catalogue, 0: none)
  reply,      \* the reply chosen for that post
  req,        \* the call in progress inside MoltbookClient._request
  remote,     \* post ids the remote API took a comment for: once, and again
  cyc,        \* what the current cycle has done so far
  delay,      \* the sleep main has picked, in seconds
  built,      \* whether MemoryStore and MoltbookClient were constructed
  call        \* the last direct call of a store method or of decide_reply

vars ==
  << config, startup, pc, exit, file, doc, now, nposts, idx, post, reply, req,
     remote, cyc, delay, built, call >>

NoExit == [code |-> -1, error |-> "none", cause |-> NoError]

NoPost == 0

\* No store method and no decide_reply was called apart from main.
NoCall ==
  [op |-> "none", post_id |-> "", fingerprint |-> <<>>, at |-> 0, post |-> NoPost,
   before |-> EmptyDoc, count |-> 0, result |-> <<>>, raised |-> FALSE]

\* Bookkeeping of one cycle: the result of the rate check and the document it
\* saved, the calls made, the positions skipped as replied already, given to
\* decide_reply and acted upon.
NewCycle ==
  [count |-> -1, doc0 |-> EmptyDoc, fetch_calls |-> 0, fetch_sent |-> FALSE,
   comment_calls |-> 0, comment_sent |-> FALSE, skipped |-> {}, evaluated |-> {},
   acted |-> <<>>, dry_logs |-> 0]

Init ==
  /\ \/ config \in Configs /\ startup = "ok"
     \/ config = AgentConfig(BASE_DEFAULT, TRUE, 1, 1, TRUE) /\ startup \in StartupCases \ {"ok"}
  /\ pc = "main"
  /\ exit = NoExit
  /\ file = "absent"
  /\ doc = EmptyDoc
  /\ now = 0
  /\ nposts = 0
  /\ idx = 0
  /\ post = NoPost
  /\ reply = NoReply
  /\ req = NoRequest
  /\ remote = [once |-> {}, again |-> {}]
  /\ cyc = NewCycle
  /\ delay = 0
  /\ built = FALSE
  /\ call = NoCall

\* The locals of run_once are gone.
LeaveRunOnce ==
  /\ nposts' = 0
  /\ idx' = 0
  /\ post' = NoPost
  /\ reply' = NoReply
  /\ cyc' = NewCycle

\* An uncaught exception leaves run_once and main: the process ends with a
\* traceback (status 1).
Raise(error, cause) ==
  /\ pc' = "crashed"
  /\ exit' = [code |-> 1, error |-> error, cause |-> cause]
  /\ LeaveRunOnce

\* ------------------------------------------------------------------- main
\* main, lines 264-271: load_config and ensure_env.
LoadConfig ==
  /\ pc = "main"
  /\ \/ /\ startup \in {"missing_file", "wrong_agent_name", "missing_api_key"}
        /\ pc' = "exited"
        /\ exit' = [code |-> ConfigExitCode, error |-> "ConfigError", cause |-> NoError]
        /\ UNCHANGED << nposts, idx, post, reply, cyc >>
     \/ /\ startup = "missing_submolt"
        /\ Raise("KeyError", NoError)
     \/ /\ startup = "bad_integer"
        /\ Raise("ValueError", NoError)
     \/ /\ startup = "ok"
        /\ pc' = "configured"
        /\ UNCHANGED << exit, nposts, idx, post, reply, cyc >>
  /\ UNCHANGED << call, config, startup, file, doc, now, req, remote, delay, built >>

\* MemoryStore.__init__ that also rewrites a document it cannot read.
MemoryStoreInit_ResetUnlessOk(f, d) ==
  IF f # "ok" THEN [file |-> "ok", doc |-> EmptyDoc] ELSE [file |-> f, doc |-> d]

\* MemoryStore.__init__: write the empty document only if the file is absent.
MemoryStoreInit(f, d) ==
  IF f = "absent" THEN [file |-> "ok", doc |-> EmptyDoc] ELSE [file |-> f, doc |-> d]

\* main, lines 273-277: construct the store and the client.
Construct ==
  /\ pc = "configured"
  /\ file' = MemoryStoreInit(file, doc).file
  /\ doc' = MemoryStoreInit(file, doc).doc
  /\ built' = TRUE
  /\ pc' = "rate_check"
  /\ UNCHANGED << call, config, startup, exit, now, nposts, idx, post, reply, req, remote,
                  cyc, delay >>

\* --------------------------------------------------------------- run_once
\* The gate with ">" for ">=".
RateLimited_OffByOne(count, cfg) == count > cfg.max_comments_per_hour

\* The gate taking a limit of 0 for "no limit".
RateLimited_ZeroUnlimited(count, cfg) ==
  cfg.max_comments_per_hour > 0 /\ count >= cfg.max_comments_per_hour

\* run_once, line 216: the gate on the hourly count.
RateLimited(count, cfg) == count >= cfg.max_comments_per_hour

\* run_once, lines 216-220, up to the call of get_submolt_posts.
RateCheck ==
  /\ pc = "rate_check"
  /\ file = "ok"
  /\ LET saved == comment_count_last_hour(doc, now)
         count == Len(saved.comment_timestamps)
     IN /\ doc' = saved
        /\ IF RateLimited(count, config)
           THEN /\ pc' = "cycle_end"
                /\ req' = req
                /\ cyc' = [cyc EXCEPT !.count = count, !.doc0 = saved]
           ELSE /\ pc' = "fetch"
                /\ req' = NewRequest("fetch", "")
                /\ cyc' = [cyc EXCEPT !.count = count, !.doc0 = saved, !.fetch_calls = @ + 1]
  /\ UNCHANGED << call, config, startup, exit, file, now, nposts, idx, post, reply, remote,
                  delay, built >>

\* The post the for loop is at.
CurrentPost == Catalogue[post]

\* The step of run_once at pc reads or writes the state document.
TouchesStore ==
  \/ pc \in {"rate_check", "persist"}
  \/ pc = "visit" /\ PostIdStr(CurrentPost) # ""

\* MemoryStore._load on a document that does not parse: the operation raises
\* and nothing is written.
StoreFailure ==
  /\ TouchesStore
  /\ file = "corrupt"
  /\ Raise("JSONDecodeError", NoError)
  /\ UNCHANGED << call, config, startup, file, doc, now, req, remote, delay, built >>

\* MoltbookClient._request, lines 133-136: build the address and check it.
BeginRequest ==
  /\ pc \in {"fetch", "comment"}
  /\ ~req.checked
  /\ IF UrlAllowed(config.api_base)
     THEN /\ req' = [req EXCEPT !.checked = TRUE]
          /\ UNCHANGED << pc, exit, nposts, idx, post, reply, cyc >>
     ELSE /\ Raise("ValueError", NoError)
          /\ req' = req
  /\ UNCHANGED << call, config, startup, file, doc, now, remote, delay, built >>

\* The try block of _request raises on this outcome (lines 145-148).
AttemptRaises(outcome) == outcome # "ok"

\* _request sleeping after every failed attempt, the last one too.
SleepsAfter_EveryFailure(attempt, cfg) == attempt <= cfg.max_retries

\* _request sleeps after a failed attempt numbered attempt (line 150).
SleepsAfter(attempt, cfg) == attempt < cfg.max_retries

\* The for loop of _request goes on after attempt attempts (line 137).
AttemptsRemain(attempt, cfg) == attempt < cfg.max_retries

\* The remote API after it took in a comment for post_id.
Accept(rem, post_id) ==
  IF post_id \in rem.once
  THEN [rem EXCEPT !.again = @ \cup {post_id}]
  ELSE [rem EXCEPT !.once = @ \cup {post_id}]

\* MoltbookClient._request, lines 137-151: one pass of the retry loop, and on
\* success the return into get_submolt_posts or comment.
Attempt ==
  /\ pc \in {"fetch", "comment"}
  /\ req.checked
  /\ AttemptsRemain(req.attempt, config)
  /\ \E outcome \in AttemptOutcomes, accepted \in BOOLEAN :
       LET attempt == req.attempt + 1
       IN /\ accepted \in MayAccept(outcome)
          /\ remote' = IF req.op = "comment" /\ accepted
                       THEN Accept(remote, req.post_id)
                       ELSE remote
          /\ cyc' = IF req.op = "comment"
                    THEN [cyc EXCEPT !.comment_sent = TRUE]
                    ELSE [cyc EXCEPT !.fetch_sent = TRUE]
          /\ IF AttemptRaises(outcome)
             THEN /\ req' = [req EXCEPT
                               !.attempt = attempt,
                               !.last_error = [kind |-> outcome, attempt |-> attempt],
                               !.sleeps = IF SleepsAfter(attempt, config)
                                          THEN Append(@, Backoff(attempt)) ELSE @]
                  /\ UNCHANGED << pc, nposts, idx >>
             ELSE /\ req' = NoRequest
                  /\ IF req.op = "fetch"
                     THEN /\ \E shape \in ListingShapes, n \in 0..MaxFeed :
                               nposts' = PostCount(shape, n)
                          /\ idx' = 0
                          /\ pc' = "scan"
                     ELSE /\ pc' = "persist"
                          /\ UNCHANGED << nposts, idx >>
  /\ UNCHANGED << call, config, startup, exit, file, doc, now, post, reply, delay, built >>

\* MoltbookClient._request, line 152: the loop ran out.
GiveUp ==
  /\ pc \in {"fetch", "comment"}
  /\ req.checked
  /\ ~AttemptsRemain(req.attempt, config)
  /\ Raise("RuntimeError", req.last_error)
  /\ UNCHANGED << call, config, startup, file, doc, now, req, remote, delay, built >>

\* run_once, line 223: the for loop takes the next post, or ends.
NextPost ==
  /\ pc = "scan"
  /\ IF idx < nposts
     THEN /\ idx' = idx + 1
          /\ post' \in PostKeys
          /\ pc' = "visit"
     ELSE /\ pc' = "cycle_end"
          /\ UNCHANGED << idx, post >>
  /\ UNCHANGED << call, config, startup, exit, file, doc, now, nposts, reply, req, remote,
                  cyc, delay, built >>

\* Dry-run that only logs and ends the cycle.
ActStep_DryRunOnlyLogs(cfg) == IF cfg.dry_run THEN "cycle_end" ELSE "comment"

\* run_once, lines 232-235: log under dry-run, else call client.comment; the
\* store calls follow either.
ActStep(cfg) == IF cfg.dry_run THEN "persist" ELSE "comment"

\* The body of the for loop with mark_replied moved ahead of client.comment.
Visit_MarkBeforeComment ==
  /\ pc = "visit"
  /\ LET post_id == PostIdStr(CurrentPost)
         candidate == decide_reply(CurrentPost, doc)
     IN IF post_id = ""
        THEN /\ pc' = "scan"
             /\ UNCHANGED << doc, reply, req, cyc >>
        ELSE /\ file = "ok"
             /\ IF has_replied(doc, post_id)
                THEN /\ pc' = "scan"
                     /\ cyc' = [cyc EXCEPT !.skipped = @ \cup {idx}]
                     /\ UNCHANGED << doc, reply, req >>
                ELSE IF candidate = NoReply
                THEN /\ pc' = "scan"
                     /\ cyc' = [cyc EXCEPT !.evaluated = @ \cup {idx}]
                     /\ UNCHANGED << doc, reply, req >>
                ELSE /\ reply' = candidate
                     /\ pc' = ActStep(config)
                     /\ IF config.dry_run
                        THEN /\ req' = req
                             /\ doc' = doc
                             /\ cyc' = [cyc EXCEPT !.evaluated = @ \cup {idx},
                                                   !.acted = Append(@, idx),
                                                   !.dry_logs = @ + 1]
                        ELSE /\ req' = NewRequest("comment", post_id)
                             /\ doc' = mark_replied(doc, post_id)
                             /\ cyc' = [cyc EXCEPT !.evaluated = @ \cup {idx},
                                                   !.acted = Append(@, idx),
                                                   !.comment_calls = @ + 1]
  /\ UNCHANGED << call, config, startup, exit, file, now, nposts, idx, post, remote,
                  delay, built >>

\* run_once, lines 224-236: the body of the for loop up to the action.
Visit ==
  /\ pc = "visit"
  /\ LET post_id == PostIdStr(CurrentPost)
         candidate == decide_reply(CurrentPost, doc)
     IN IF post_id = ""
        THEN /\ pc' = "scan"
             /\ UNCHANGED << reply, req, cyc >>
        ELSE /\ file = "ok"
             /\ IF has_replied(doc, post_id)
                THEN /\ pc' = "scan"
                     /\ cyc' = [cyc EXCEPT !.skipped = @ \cup {idx}]
                     /\ UNCHANGED << reply, req >>
                ELSE IF candidate = NoReply
                THEN /\ pc' = "scan"
                     /\ cyc' = [cyc EXCEPT !.evaluated = @ \cup {idx}]
                     /\ UNCHANGED << reply, req >>
                ELSE /\ reply' = candidate
                     /\ pc' = ActStep(config)
                     /\ IF config.dry_run
                        THEN /\ req' = req
                             /\ cyc' = [cyc EXCEPT !.evaluated = @ \cup {idx},
                                                   !.acted = Append(@, idx),
                                                   !.dry_logs = @ + 1]
                        ELSE /\ req' = NewRequest("comment", post_id)
                             /\ cyc' = [cyc EXCEPT !.evaluated = @ \cup {idx},
                                                   !.acted = Append(@, idx),
                                                   !.comment_calls = @ + 1]
  /\ UNCHANGED << call, config, startup, exit, file, doc, now, nposts, idx, post, remote,
                  delay, built >>

\* The store calls without the break: the for loop goes on.
Persist_NoBreak ==
  /\ pc = "persist"
  /\ file = "ok"
  /\ doc' = record_comment_now(
              add_advice(mark_replied(doc, PostIdStr(CurrentPost)), short_fingerprint(reply)),
              now)
  /\ pc' = "scan"
  /\ UNCHANGED << call, config, startup, exit, file, now, nposts, idx, post, reply, req,
                  remote, cyc, delay, built >>

\* run_once, lines 238-241: the three store calls and the break.
Persist ==
  /\ pc = "persist"
  /\ file = "ok"
  /\ doc' = record_comment_now(
              add_advice(mark_replied(doc, PostIdStr(CurrentPost)), short_fingerprint(reply)),
              now)
  /\ pc' = "cycle_end"
  /\ UNCHANGED << call, config, startup, exit, file, now, nposts, idx, post, reply, req,
                  remote, cyc, delay, built >>

\* ------------------------------------------------------- main, lines 279-287
MinLoopSeconds == 45
MaxLoopSeconds == 110

\* random.randint(min_loop_seconds, max_loop_seconds), sampled at its ends
Delays == {MinLoopSeconds, MaxLoopSeconds}

\* run_once has returned: leave with status 0 under --once, else pick the
\* delay and sleep.
CycleEnd ==
  /\ pc = "cycle_end"
  /\ IF config.once
     THEN /\ pc' = "exited"
          /\ exit' = [code |-> 0, error |-> "none", cause |-> NoError]
          /\ delay' = 0
     ELSE /\ pc' = "sleeping"
          /\ exit' = exit
          /\ delay' \in Delays
  /\ LeaveRunOnce
  /\ req' = NoRequest
  /\ UNCHANGED << call, config, startup, file, doc, now, remote, built >>

\* time.sleep(delay) is over: the while loop calls run_once again.
Wake ==
  /\ pc = "sleeping"
  /\ pc' = "rate_check"
  /\ delay' = 0
  /\ UNCHANGED << call, config, startup, exit, file, doc, now, nposts, idx, post, reply,
                  req, remote, cyc, built >>

\* ------------------------------------------------------------ environment
\* Time passes.  The clock is read by comment_count_last_hour and by
\* record_comment_now only, so it is advanced ahead of the store calls that
\* end a cycle, during the sleep and between runs.  It never goes back.
Tick ==
  /\ pc \in {"persist", "sleeping", "exited", "crashed"}
  /\ now < MaxTicks * ClockStep
  /\ now' = now + ClockStep
  /\ UNCHANGED << call, config, startup, pc, exit, file, doc, nposts, idx, post, reply,
                  req, remote, cyc, delay, built >>

\* The operator starts the agent again (after it ended, or after stopping it
\* in its sleep) with the same settings and the same state document.
Restart ==
  /\ pc \in {"sleeping", "exited", "crashed"}
  /\ pc' = "main"
  /\ exit' = NoExit
  /\ built' = FALSE
  /\ req' = NoRequest
  /\ delay' = 0
  /\ UNCHANGED << call, config, startup, file, doc, now, nposts, idx, post, reply, remote, cyc >>

\* The state document is damaged from outside the store (a partial write, a
\* manual edit): it no longer parses.
CorruptDocument ==
  /\ pc \in {"fetch", "persist", "sleeping", "exited", "crashed"}
  /\ file = "ok"
  /\ file' = "corrupt"
  /\ UNCHANGED << call, config, startup, pc, exit, doc, now, nposts, idx, post, reply,
                  req, remote, cyc, delay, built >>

Next ==
  \/ LoadConfig
  \/ Construct
  \/ RateCheck
  \/ StoreFailure
  \/ BeginRequest
  \/ Attempt
  \/ GiveUp
  \/ NextPost
  \/ Visit
  \/ Persist
  \/ CycleEnd
  \/ Wake
  \/ Tick
  \/ Restart
  \/ CorruptDocument

Spec == Init /\ [][Next]_vars

\* ============================================== the store methods on their own
\* MemoryStore is opened on a document that is absent or holds any lists of up
\* to MaxStored entries, repeated entries included, and its methods are
\* called in any order with any arguments.
StoreIds == PostIdStrings

StoreFingerprints == {short_fingerprint(REPLY_DEFAULT), short_fingerprint(REPLY_SOURCING)}

\* The lists of up to n entries over a set.
ListsOver(S, n) == UNION {[1..k -> S] : k \in 0..n}

StoreDocs ==
  {[replied_post_ids |-> r, advice_fingerprints |-> a, comment_timestamps |-> <<>>] :
     r \in ListsOver(StoreIds, MaxStored), a \in ListsOver(StoreFingerprints, MaxStored)}

\* What main alone uses stays as main starts with it.
MainIdle ==
  /\ config = AgentConfig(BASE_DEFAULT, TRUE, 1, 1, TRUE)
  /\ startup = "ok"
  /\ exit = NoExit
  /\ nposts = 0
  /\ idx = 0
  /\ req = NoRequest
  /\ remote = [once |-> {}, again |-> {}]
  /\ cyc = NewCycle
  /\ delay = 0

InitStore ==
  /\ MainIdle
  /\ pc = "new_store"
  /\ \/ file = "absent" /\ doc = EmptyDoc
     \/ file = "ok" /\ doc \in StoreDocs
  /\ now = 0
  /\ post = NoPost
  /\ reply = NoReply
  /\ built = FALSE
  /\ call = NoCall

\* MemoryStore(path): the document is created, or an existing one is opened.
OpenStore ==
  /\ pc = "new_store"
  /\ file' = MemoryStoreInit(file, doc).file
  /\ doc' = MemoryStoreInit(file, doc).doc
  /\ pc' = IF file = "absent" THEN "created" ELSE "opened"
  /\ built' = TRUE
  /\ UNCHANGED << call, config, startup, exit, now, nposts, idx, post, reply, req,
                  remote, cyc, delay >>

\* memory.mark_replied(p)
CallMarkReplied(p) ==
  /\ pc \in {"created", "opened"}
  /\ file = "ok"
  /\ Len(doc.replied_post_ids) <= MaxStored
  /\ doc' = mark_replied(doc, p)
  /\ call' = [NoCall EXCEPT !.op = "mark_replied", !.post_id = p, !.before = doc]
  /\ UNCHANGED << config, startup, pc, exit, file, now, nposts, idx, post, reply, req,
                  remote, cyc, delay, built >>

\* memory.add_advice(f)
CallAddAdvice(f) ==
  /\ pc \in {"created", "opened"}
  /\ file = "ok"
  /\ Len(doc.advice_fingerprints) <= MaxStored
  /\ doc' = add_advice(doc, f)
  /\ call' = [NoCall EXCEPT !.op = "add_advice", !.fingerprint = f, !.before = doc]
  /\ UNCHANGED << config, startup, pc, exit, file, now, nposts, idx, post, reply, req,
                  remote, cyc, delay, built >>

NextStore ==
  \/ OpenStore
  \/ \E p \in StoreIds : CallMarkReplied(p)
  \/ \E f \in StoreFingerprints : CallAddAdvice(f)

SpecStore == InitStore /\ [][NextStore]_vars

\* ============================================ the hourly window on its own
\* The store holds any list of up to MaxStored timestamps, in any order, and
\* comment_count_last_hour and record_comment_now are called as time passes.
ClockValues == {k * ClockStep : k \in 0..MaxTicks}

WindowDocs ==
  {[replied_post_ids |-> r, advice_fingerprints |-> <<>>, comment_timestamps |-> l] :
     r \in {<<>>, << "a" >>}, l \in ListsOver(ClockValues, MaxStored)}

InitWindow ==
  /\ MainIdle
  /\ pc = "opened"
  /\ file = "ok"
  /\ doc \in WindowDocs
  /\ now \in ClockValues
  /\ post = NoPost
  /\ reply = NoReply
  /\ built = TRUE
  /\ call = NoCall

\* memory.comment_count_last_hour()
CallCommentCount ==
  /\ pc = "opened"
  /\ doc' = comment_count_last_hour(doc, now)
  /\ call' = [NoCall EXCEPT !.op = "comment_count_last_hour", !.at = now, !.before = doc,
                            !.count = Len(recent(doc, now))]
  /\ UNCHANGED << config, startup, pc, exit, file, now, nposts, idx, post, reply, req,
                  remote, cyc, delay, built >>

\* memory.record_comment_now()
CallRecordComment ==
  /\ pc = "opened"
  /\ Len(doc.comment_timestamps) <= MaxStored
  /\ doc' = record_comment_now(doc, now)
  /\ call' = [NoCall EXCEPT !.op = "record_comment_now", !.at = now, !.before = doc]
  /\ UNCHANGED << config, startup, pc, exit, file, now, nposts, idx, post, reply, req,
                  remote, cyc, delay, built >>

\* Time passes between two calls.
ClockAdvances ==
  /\ pc = "opened"
  /\ now < MaxTicks * ClockStep
  /\ now' = now + ClockStep
  /\ UNCHANGED << call, config, startup, pc, exit, file, doc, nposts, idx, post, reply,
                  req, remote, cyc, delay, built >>

NextWindow ==
  \/ CallCommentCount
  \/ CallRecordComment
  \/ ClockAdvances

SpecWindow == InitWindow /\ [][NextWindow]_vars

\* ================================================ decide_reply on its own
\* decide_reply is called for any post of Samples with a store whose
\* document holds any list of up to MaxStored fingerprints, or does not parse.
DecideDocs ==
  {[replied_post_ids |-> r, advice_fingerprints |-> a, comment_timestamps |-> <<>>] :
     r \in {<<>>, << "a" >>}, a \in ListsOver(StoreFingerprints, MaxStored)}

Samples ==
  Catalogue \o
  << [id |-> [t |-> "str", s |-> "a"], title |-> TITLE_PLAIN, content |-> BODY_PLAIN],
     [id |-> [t |-> "str", s |-> "a"], title |-> TITLE_PADDED, content |-> BODY_PADDED],
     [id |-> [t |-> "str", s |-> "a"], title |-> TITLE_29, content |-> NoText] >>

\* decide_reply gets as far as memory.has_advice (line 191) for the post.
ReachesLookup(p) ==
  /\ ~(Len(Combined(p)) < MinCombinedLen)
  /\ ~(/\ ~Contains(Combined(p), WORD_QUESTION)
       /\ ~Contains(Lower(Combined(p)), WORD_DEBATE)
       /\ ~Contains(Lower(Combined(p)), WORD_WHY))

InitDecide ==
  /\ MainIdle
  /\ pc = "opened"
  /\ \/ file = "ok" /\ doc \in DecideDocs
     \/ file = "corrupt" /\ doc = EmptyDoc
  /\ now = 0
  /\ post = NoPost
  /\ reply = NoReply
  /\ built = TRUE
  /\ call = NoCall

\* decide_reply(Samples[k], memory): it returns, or the lookup of line 191
\* raises out of it on a document that does not parse.
CallDecideReply(k) ==
  /\ pc = "opened"
  /\ IF ReachesLookup(Samples[k]) /\ file = "corrupt"
     THEN /\ Raise("JSONDecodeError", NoError)
          /\ call' = [NoCall EXCEPT !.op = "decide_reply", !.post = k, !.before = doc,
                                    !.raised = TRUE]
     ELSE /\ reply' = decide_reply(Samples[k], doc)
          /\ call' = [NoCall EXCEPT !.op = "decide_reply", !.post = k, !.before = doc,
                                    !.result = decide_reply(Samples[k], doc)]
          /\ UNCHANGED << pc, exit, nposts, idx, post, cyc >>
  /\ UNCHANGED << config, startup, file, doc, now, req, remote, delay, built >>

NextDecide == \E k \in DOMAIN Samples : CallDecideReply(k)

SpecDecide == InitDecide /\ [][NextDecide]_vars

\* ================================================================= claims
\* run_once has passed its rate check and has not yet returned or raised.
InCycle == cyc.count >= 0

\* The timestamps of the document that lie within the last Window seconds.
InWindow == {i \in 1..Len(doc.comment_timestamps) :
               now - doc.comment_timestamps[i] < Window}

\* The address differs from the pinned pair in its scheme or in its host.
TargetDiffers == config.api_base \in {BASE_PLAIN_HTTP, BASE_OTHER_HOST}

\* C1: in one call of run_once at most one post is acted upon (one comment
\* call or one dry-run log), at most one post id and one timestamp are added
\* to the document, and no post after the acted-upon one reaches decide_reply.
C1_AtMostOneReplyPerCycle ==
  InCycle =>
    /\ Len(cyc.acted) <= 1
    /\ cyc.comment_calls + cyc.dry_logs <= 1
    /\ Len(doc.replied_post_ids) <= Len(cyc.doc0.replied_post_ids) + 1
    /\ Len(doc.comment_timestamps) <= Len(cyc.doc0.comment_timestamps) + 1
    /\ \A i \in cyc.evaluated : \A k \in 1..Len(cyc.acted) : i <= cyc.acted[k]
    /\ cyc.acted # <<>> => idx = cyc.acted[1] /\ pc \in {"comment", "persist", "cycle_end"}

\* A cycle that acted on a post, recorded it, and left later posts unread.
C1_Witness ==
  /\ pc = "cycle_end"
  /\ Len(cyc.acted) = 1
  /\ idx < nposts
  /\ Len(doc.replied_post_ids) = Len(cyc.doc0.replied_post_ids) + 1
  /\ Len(doc.comment_timestamps) = Len(cyc.doc0.comment_timestamps) + 1

\* C2: with a limit N >= 0 and a clock that never goes back, the number of
\* recorded timestamps within the last 3600 seconds never exceeds N.
C2_RollingHourlyLimit ==
  Cardinality(InWindow) <= config.max_comments_per_hour

\* A second action was recorded after the first one left the window, with
\* the limit at 1.
C2_Witness ==
  /\ config.max_comments_per_hour = 1
  /\ Len(doc.replied_post_ids) = 2
  /\ Cardinality(InWindow) = 1
  /\ pc = "cycle_end"

\* C3: a cycle that starts with at least N actions in the last hour makes no
\* fetch and no comment call, gives no post to decide_reply, adds nothing to
\* the document and goes straight to the end of the cycle.
C3_RateLimitedCycleSkips ==
  (InCycle /\ cyc.count >= config.max_comments_per_hour) =>
    /\ pc = "cycle_end"
    /\ cyc.fetch_calls = 0 /\ ~cyc.fetch_sent
    /\ cyc.comment_calls = 0 /\ ~cyc.comment_sent
    /\ cyc.evaluated = {} /\ cyc.acted = <<>> /\ cyc.dry_logs = 0
    /\ req.op = "none"
    /\ doc = cyc.doc0

\* A cycle skipped because an earlier action is still within the hour.
C3_Witness ==
  /\ pc = "cycle_end"
  /\ config.max_comments_per_hour >= 1
  /\ cyc.count >= config.max_comments_per_hour

\* C4: no post id receives more than one comment from the agent, across
\* cycles, restarts, failed and retried attempts.
C4_NoDuplicateReplies == remote.again = {}

\* C5: under dry-run a cycle that finds a qualifying fresh post sends no
\* comment, and still ends with the post id, the reply's fingerprint and one
\* timestamp added to the document, as a cycle that posted does.
C5_DryRunPersists ==
  /\ config.dry_run => remote.once = {} /\ ~cyc.comment_sent /\ cyc.comment_calls = 0
  /\ (pc = "cycle_end" /\ cyc.acted # <<>>) =>
       /\ doc.replied_post_ids = Append(cyc.doc0.replied_post_ids, PostIdStr(CurrentPost))
       /\ doc.advice_fingerprints = Append(cyc.doc0.advice_fingerprints, short_fingerprint(reply))
       /\ doc.comment_timestamps = Append(cyc.doc0.comment_timestamps, now)

\* A dry-run cycle that acted on a post.
C5_Witness ==
  /\ config.dry_run
  /\ pc = "cycle_end"
  /\ cyc.acted # <<>>
  /\ cyc.dry_logs = 1

\* C6: a request whose scheme or host differs from (https, www.moltbook.com)
\* fails with the allowlist error before any attempt: no attempt, no sleep,
\* no retry.
C6_AllowlistBlocksBeforeNetwork ==
  TargetDiffers =>
    /\ req.attempt = 0 /\ req.sleeps = <<>> /\ ~req.checked
    /\ ~cyc.fetch_sent /\ ~cyc.comment_sent
    /\ remote.once = {}
    /\ pc \notin {"scan", "visit", "persist"}
    /\ (pc = "crashed" /\ req.op # "none") => exit.error = "ValueError"

\* A fetch to another host was refused.
C6_Witness ==
  /\ config.api_base = BASE_OTHER_HOST
  /\ pc = "crashed"
  /\ req.op = "fetch"
  /\ exit.error = "ValueError"

\* The sleeps of a call whose first n attempts all failed, out of m allowed.
ExpectedSleeps(n, m) == [k \in 1..(IF n < m THEN n ELSE m - 1) |-> 12 * k]

\* C7: when every attempt of a call fails, there are exactly max_retries
\* attempts, a sleep of 1.2 * k seconds after the k-th failure for each
\* k < max_retries, none after the last, then one RuntimeError that carries
\* the last error.
C7_RetryExhaustion ==
  /\ req.op # "none" => req.sleeps = ExpectedSleeps(req.attempt, config.max_retries)
  /\ (pc = "crashed" /\ exit.error = "RuntimeError") =>
       /\ req.attempt = config.max_retries
       /\ req.sleeps = ExpectedSleeps(config.max_retries, config.max_retries)
       /\ exit.cause = req.last_error
       /\ config.max_retries >= 1 =>
            /\ exit.cause.attempt = config.max_retries
            /\ exit.cause.kind \in AttemptOutcomes \ {"ok"}

\* A call with three attempts allowed gave up after sleeping 1.2 s and 2.4 s.
C7_Witness ==
  /\ pc = "crashed"
  /\ exit.error = "RuntimeError"
  /\ config.max_retries = 3
  /\ req.attempt = 3
  /\ req.sleeps = << 12, 24 >>

\* C8: a further attempt of the same call follows only an attempt that ended
\* in a network error, a timeout or a status of 400 or more.
C8_RetryOnlyAfterFailure ==
  [][(req.attempt >= 1 /\ req'.op = req.op /\ req'.attempt = req.attempt + 1)
       => req.last_error.kind \in {"network_error", "timeout", "http_error"}]_vars

\* C9: in loop mode a call that runs out of retries ends the cycle only; the
\* process does not end.
C9_LoopSurvivesGatewayFailure ==
  ~(/\ ~config.once
    /\ config.max_retries >= 1 /\ req.attempt = config.max_retries
    /\ pc = "crashed" /\ exit.error = "RuntimeError")

\* C10: the document is set to the three empty containers only when it is
\* absent at construction; a document that does not parse is never written,
\* and every store operation on it raises.
C10_CorruptDocumentNeverReset ==
  [][/\ file = "corrupt" => file' = "corrupt" /\ doc' = doc
     /\ (file # "ok" /\ file' = "ok") =>
          file = "absent" /\ pc = "configured" /\ doc' = EmptyDoc
     /\ (file = "corrupt" /\ TouchesStore /\ pc' # pc) =>
          pc' = "crashed" /\ exit'.error = "JSONDecodeError"]_vars

\* A store operation raised on a damaged document that holds history.
C10_Witness ==
  /\ file = "corrupt"
  /\ pc = "crashed"
  /\ exit.error = "JSONDecodeError"
  /\ doc.replied_post_ids # <<>>
  /\ built

\* The text of the post passes the length and the keyword filters of
\* decide_reply.
Qualifies(p) ==
  /\ Len(Combined(p)) >= MinCombinedLen
  /\ \/ Contains(Combined(p), WORD_QUESTION)
     \/ Contains(Lower(Combined(p)), WORD_DEBATE)
     \/ Contains(Lower(Combined(p)), WORD_WHY)

\* The fingerprints of the two templates.
FP_DEFAULT == short_fingerprint(REPLY_DEFAULT)
FP_SOURCING == short_fingerprint(REPLY_SOURCING)

\* short_fingerprint(r), looked up for the two templates.
FingerprintOf(r) ==
  IF r = REPLY_DEFAULT THEN FP_DEFAULT
  ELSE IF r = REPLY_SOURCING THEN FP_SOURCING
  ELSE short_fingerprint(r)

\* The fingerprint of the template decide_reply selects for the post.
SelectedFingerprint(p) == FingerprintOf(SelectReply(Combined(p)))

\* The for loop is at a post with an id that is not in replied_post_ids.
AtFreshPost ==
  /\ post # NoPost
  /\ PostIdStr(CurrentPost) # ""
  /\ ~InList(PostIdStr(CurrentPost), doc.replied_post_ids)

\* C11: decide_reply gives no candidate for a post whose selected reply has
\* its fingerprint in advice_fingerprints already, also when the post is
\* fresh and passes the text filters; so every completed action records a
\* fingerprint that was not recorded before, and no fingerprint is recorded
\* twice.
C11_FingerprintUsedOnce ==
  [][/\ (pc = "visit" /\ file = "ok" /\ AtFreshPost /\ Qualifies(CurrentPost)
          /\ InList(SelectedFingerprint(CurrentPost), doc.advice_fingerprints)
          /\ pc' # pc)
        => (pc' = "scan" /\ cyc'.acted = cyc.acted /\ reply' = NoReply /\ doc' = doc)
     /\ (pc \in {"comment", "persist"})
        => ~InList(FingerprintOf(reply), doc.advice_fingerprints)
     /\ (pc = "persist" /\ pc' = "cycle_end")
        => doc'.advice_fingerprints =
             Append(doc.advice_fingerprints, FingerprintOf(reply))
     /\ \A i, j \in 1..Len(doc.advice_fingerprints) :
          doc.advice_fingerprints[i] = doc.advice_fingerprints[j] => i = j]_vars

\* A fresh post that passes the text filters was given to decide_reply and
\* got no candidate, its reply having been used for another post.
C11_Witness ==
  /\ pc = "scan"
  /\ AtFreshPost
  /\ Qualifies(CurrentPost)
  /\ idx \in cyc.evaluated
  /\ cyc.acted = <<>>
  /\ InList(SelectedFingerprint(CurrentPost), doc.advice_fingerprints)
  /\ doc.replied_post_ids # <<>>

\* decide_reply has a candidate for the post: the text passes the filters and
\* the selected reply's fingerprint is not recorded.
YieldsCandidate(p) ==
  /\ Qualifies(p)
  /\ ~InList(SelectedFingerprint(p), doc.advice_fingerprints)

\* C12: the for loop takes the posts in feed order; a post with an empty id
\* or an id in replied_post_ids is skipped and never given to decide_reply;
\* every other post is given to it, and the first one that gets a candidate
\* is the one and only post acted upon (feed of two, first replied already,
\* second fresh and qualifying: one comment call, for the second).
C12_FirstFreshCandidateActed ==
  [][/\ (pc = "scan" /\ pc' = "visit")
        => (idx < nposts /\ idx' = idx + 1 /\ cyc.acted = <<>>)
     /\ (pc = "visit" /\ pc' \notin {"visit", "crashed"})
        => IF ~AtFreshPost
           THEN /\ pc' = "scan"
                /\ cyc'.evaluated = cyc.evaluated /\ cyc'.acted = cyc.acted
                /\ doc' = doc /\ req' = req
           ELSE /\ cyc'.evaluated = cyc.evaluated \cup {idx}
                /\ IF YieldsCandidate(CurrentPost)
                   THEN /\ cyc'.acted = << idx >>
                        /\ pc' \in {"comment", "persist"}
                        /\ pc' = "comment" =>
                             req'.op = "comment" /\ req'.post_id = PostIdStr(CurrentPost)
                   ELSE /\ pc' = "scan"
                        /\ cyc'.acted = cyc.acted
     /\ cyc.acted # <<>>
        => /\ cyc.comment_calls + cyc.dry_logs = 1
           /\ \A i \in cyc.skipped \cup cyc.evaluated : i <= cyc.acted[1]
           /\ cyc.skipped \cap cyc.evaluated = {}]_vars

\* A feed of two posts, the first replied to in an earlier cycle and skipped,
\* the second fresh and qualifying: one comment call, made for the second
\* post and accepted.
C12_Witness ==
  /\ pc = "persist"
  /\ ~config.dry_run
  /\ nposts = 2
  /\ cyc.skipped = {1}
  /\ cyc.evaluated = {2}
  /\ cyc.acted = << 2 >>
  /\ cyc.comment_calls = 1
  /\ PostIdStr(CurrentPost) \in remote.once
  /\ PostIdStr(CurrentPost) \notin remote.again

\* C13: after mark_replied(p) has_replied(p) holds, and mark_replied(p) on a
\* document that holds p already leaves every field of the document as it
\* was; the same for add_advice and has_advice over advice_fingerprints.
C13_IdempotentInsert ==
  /\ call.op = "mark_replied" =>
       /\ InList(call.post_id, doc.replied_post_ids)
       /\ has_replied(doc, call.post_id)
       /\ InList(call.post_id, call.before.replied_post_ids) => doc = call.before
       /\ doc.advice_fingerprints = call.before.advice_fingerprints
       /\ doc.comment_timestamps = call.before.comment_timestamps
  /\ call.op = "add_advice" =>
       /\ InList(call.fingerprint, doc.advice_fingerprints)
       /\ has_advice(doc, call.fingerprint)
       /\ InList(call.fingerprint, call.before.advice_fingerprints) => doc = call.before
       /\ doc.replied_post_ids = call.before.replied_post_ids
       /\ doc.comment_timestamps = call.before.comment_timestamps

\* mark_replied was called for an id the document held already, after other
\* entries, and the document is as before.
C13_Witness ==
  /\ call.op = "mark_replied"
  /\ InList(call.post_id, call.before.replied_post_ids)
  /\ Len(call.before.replied_post_ids) >= 2
  /\ call.before.advice_fingerprints # <<>>
  /\ doc = call.before

\* No entry of the list is repeated.
NoRepeats(list) == \A i, j \in 1..Len(list) : list[i] = list[j] => i = j

\* C14: in a document that MemoryStore created empty, whatever the order and
\* the arguments of the calls that followed, no post id is twice in
\* replied_post_ids and no fingerprint twice in advice_fingerprints.
C14_NoRepeatedEntries ==
  pc = "created" =>
    /\ NoRepeats(doc.replied_post_ids)
    /\ NoRepeats(doc.advice_fingerprints)

\* A created document that holds three ids and every fingerprint, after a
\* call that named a fingerprint it held already.
C14_Witness ==
  /\ pc = "created"
  /\ Len(doc.replied_post_ids) = 3
  /\ Len(doc.advice_fingerprints) = Cardinality(StoreFingerprints)
  /\ call.op = "add_advice"
  /\ InList(call.fingerprint, call.before.advice_fingerprints)

\* The call just made is comment_count_last_hour.
Counted == call.op = "comment_count_last_hour"

\* The positions of the list before the call whose timestamp satisfies P.
StampsWhere(P(_)) ==
  {i \in 1..Len(call.before.comment_timestamps) : P(call.before.comment_timestamps[i])}

\* C15 as stated: comment_count_last_hour returns the number of timestamps
\* within [now - 3600, now): one exactly 3600 seconds old is counted, one
\* equal to now is not.
C15_CountsHalfOpenBefore ==
  Counted =>
    call.count = Cardinality(StampsWhere(LAMBDA ts : call.at - Window <= ts /\ ts < call.at))

\* C15 as amended: comment_count_last_hour returns the number of timestamps
\* ts with now - ts < 3600 (one exactly 3600 seconds old is not counted, one
\* equal to now is), keeps exactly those in their order, leaves the other
\* fields alone, and so no later call counts an entry 3600 seconds old or
\* older at its own time.
C15_CountsWithinLastHour ==
  Counted =>
    /\ call.count = Cardinality(StampsWhere(LAMBDA ts : ts + Window > call.at))
    /\ call.count = Len(doc.comment_timestamps)
    /\ doc.comment_timestamps =
         SelectSeq(call.before.comment_timestamps, LAMBDA ts : ts + Window > call.at)
    /\ \A i \in 1..Len(doc.comment_timestamps) :
         call.at - doc.comment_timestamps[i] < Window
    /\ doc.replied_post_ids = call.before.replied_post_ids
    /\ doc.advice_fingerprints = call.before.advice_fingerprints

\* A count over a timestamp exactly 3600 seconds old, which was dropped, and
\* one equal to now, which was counted.
C15_Witness ==
  /\ Counted
  /\ StampsWhere(LAMBDA ts : ts = call.at - Window) # {}
  /\ StampsWhere(LAMBDA ts : ts = call.at) # {}
  /\ call.count = 1
  /\ doc.comment_timestamps = << call.at >>

\* The call just made is decide_reply, for the post Decided.
DecidedCall == call.op = "decide_reply"

Decided == Samples[call.post]

\* C16 as stated: decide_reply returns a candidate only for a post whose
\* trimmed title-and-body text has 30 characters or more and contains "?",
\* or in any case "debate" or "why"; it returns none for a text of fewer
\* than 30 characters; it never raises and never changes the store.
C16_DecideNeverRaises ==
  DecidedCall =>
    /\ ~call.raised
    /\ pc # "crashed"
    /\ doc = call.before
    /\ call.result # NoReply => Qualifies(Decided)
    /\ Len(Combined(Decided)) < MinCombinedLen => call.result = NoReply

\* C16 as amended: the same, except that decide_reply raises when the state
\* document cannot be read at the fingerprint lookup, which only a post that
\* passes both text filters reaches; it returns in every other case.
C16_DecideRaisesOnlyOnUnreadableStore ==
  DecidedCall =>
    /\ call.raised <=> (file = "corrupt" /\ Qualifies(Decided))
    /\ call.raised <=> pc = "crashed"
    /\ call.raised => exit.error = "JSONDecodeError"
    /\ doc = call.before
    /\ call.result # NoReply => Qualifies(Decided)
    /\ Len(Combined(Decided)) < MinCombinedLen => call.result = NoReply /\ ~call.raised

\* A post whose text has 30 characters or more and a keyword before it is
\* trimmed, and fewer after, got no candidate.
C16_Witness ==
  /\ DecidedCall
  /\ ~call.raised
  /\ Len(Decided.title \o << "\n" >> \o Decided.content) >= MinCombinedLen
  /\ Len(Combined(Decided)) < MinCombinedLen
  /\ Contains(Lower(Combined(Decided)), WORD_WHY)
  /\ call.result = NoReply
  /\ call.before.advice_fingerprints = <<>>

\* C17: every configuration error (config file missing, agent_name not
\* 3mrAgent, a required setting missing or invalid, MOLTBOOK_API_KEY missing)
\* ends the process with exit code 2 before MemoryStore or MoltbookClient is
\* constructed and before any cycle; run-once mode that completes exits 0.
C17_ConfigErrorsExitTwo ==
  /\ startup # "ok" =>
       /\ ~built
       /\ pc \in {"main", "exited", "crashed"}
       /\ pc # "main" => exit.code = ConfigExitCode
  /\ (startup = "ok" /\ config.once /\ pc = "exited") => exit.code = 0

\* C18: without dry-run the comment call comes before the three store
\* calls: while it runs the document is as the rate check saved it, and when
\* it fails the cycle ends with the document still so, the post not marked
\* and no timestamp recorded.
C18_FailedCommentRecordsNothing ==
  [][/\ pc = "comment" => (~config.dry_run /\ doc = cyc.doc0)
     /\ (pc = "comment" /\ pc' = "crashed")
        => /\ doc' = cyc.doc0
           /\ ~InList(req.post_id, doc'.replied_post_ids)
           /\ ~InList(FingerprintOf(reply), doc'.advice_fingerprints)
           /\ doc'.comment_timestamps = cyc.doc0.comment_timestamps
           /\ exit'.error \in {"RuntimeError", "ValueError"}
     /\ (pc = "comment" /\ pc' = "persist") => doc' = cyc.doc0]_vars

\* A comment call ran out of retries; the post it was for is not marked and
\* the document holds no timestamp.
C18_Witness ==
  /\ pc = "crashed"
  /\ exit.error = "RuntimeError"
  /\ req.op = "comment"
  /\ req.attempt = config.max_retries
  /\ ~InList(req.post_id, doc.replied_post_ids)
  /\ doc.comment_timestamps = <<>>

\* Both templates' fingerprints are recorded.
BothTemplatesUsed ==
  /\ InList(FP_DEFAULT, doc.advice_fingerprints)
  /\ InList(FP_SOURCING, doc.advice_fingerprints)

\* The number of distinct reply templates.
NumTemplates == Cardinality({REPLY_DEFAULT, REPLY_SOURCING})

\* C19: from an empty store at most two reply actions are ever taken and
\* recorded, one per template: every action starts with fewer than two
\* recorded, and once both fingerprints are recorded no cycle acts or adds
\* to replied_post_ids or advice_fingerprints, whatever the feed returns.
C19_AtMostOneActionPerTemplate ==
  [][/\ Len(doc.replied_post_ids) <= NumTemplates
     /\ Len(doc.advice_fingerprints) <= NumTemplates
     /\ pc \in {"comment", "persist"} =>
          (Len(doc.replied_post_ids) < NumTemplates /\ ~BothTemplatesUsed)
     /\ BothTemplatesUsed =>
          /\ doc'.replied_post_ids = doc.replied_post_ids
          /\ doc'.advice_fingerprints = doc.advice_fingerprints
          /\ pc' \notin {"comment", "persist"}
          /\ cyc'.acted = <<>> \/ cyc'.acted = cyc.acted]_vars

\* With both fingerprints recorded and the hourly limit not reached, a fresh
\* post that passes the text filters was given to decide_reply and the cycle
\* went on without acting.
C19_Witness ==
  /\ BothTemplatesUsed
  /\ Len(doc.replied_post_ids) = NumTemplates
  /\ pc = "scan"
  /\ cyc.count < config.max_comments_per_hour
  /\ AtFreshPost
  /\ Qualifies(CurrentPost)
  /\ idx \in cyc.evaluated
  /\ cyc.acted = <<>>

\* C20: from an empty store, with the document written by cycles only, the
\* document always holds as many post ids as fingerprints and no more
\* timestamps than that; an action adds one new post id, one new fingerprint
\* and one timestamp, and the rate check removes timestamps only.
C20_ListsGrowTogether ==
  [][/\ Len(doc.replied_post_ids) = Len(doc.advice_fingerprints)
     /\ Len(doc.comment_timestamps) <= Len(doc.replied_post_ids)
     /\ (pc = "persist" /\ pc' = "cycle_end")
        => /\ \E p \in PostIdStrings \ {""} :
                /\ ~InList(p, doc.replied_post_ids)
                /\ doc'.replied_post_ids = Append(doc.replied_post_ids, p)
           /\ \E f \in {FP_DEFAULT, FP_SOURCING} :
                /\ ~InList(f, doc.advice_fingerprints)
                /\ doc'.advice_fingerprints = Append(doc.advice_fingerprints, f)
           /\ doc'.comment_timestamps = Append(doc.comment_timestamps, now)
     /\ (pc = "rate_check" /\ pc' \in {"fetch", "cycle_end"})
        => /\ doc'.replied_post_ids = doc.replied_post_ids
           /\ doc'.advice_fingerprints = doc.advice_fingerprints
           /\ Len(doc'.comment_timestamps) <= Len(doc.comment_timestamps)
     /\ (pc' = pc \/ pc \notin {"persist", "rate_check", "configured"}) => doc' = doc]_vars

\* The end of a cycle that took the second action after the first one's
\* timestamp was pruned: two post ids, two fingerprints, one timestamp.
C20_Witness ==
  /\ pc = "cycle_end"
  /\ cyc.acted # <<>>
  /\ Len(doc.replied_post_ids) = 2
  /\ Len(doc.advice_fingerprints) = 2
  /\ Len(doc.comment_timestamps) = 1
====
